---- MODULE Spec2Model ----
(***************************************************************************)
(* syntect_server: the highlight service of src/main.rs.                   *)
(*                                                                         *)
(* main() optionally lists the catalogs, then serves.  Every POST / is one *)
(* call of highlight_handler, which runs highlight(&q) inside              *)
(* panic::catch_unwind and turns the Result into exactly one JSON reply.   *)
(* Handlers have no await point: once polled on a worker thread a handler  *)
(* runs to its reply on that thread, interleaved only with handlers that   *)
(* run on other worker threads.                                            *)
(*                                                                         *)
(* Strings are sequences of atoms ("src", "/", "main", ".", "py"); the     *)
(* code is its sequence of lines.  JSON values are records.                *)
(***************************************************************************)
EXTENDS Naturals, Sequences, FiniteSets

VARIABLES
    QUIET,        \* env::var("QUIET") as main() reads it
    pc_main,      \* position of main(): "start", "listed", "serving"
    themeLoads,   \* how often THEME_SET (lazy_static) has been built
    syntaxLoads,  \* per thread: how often its SYNTAX_SET (thread_local) has been built
    pc,           \* per request: "idle", "queued", "highlighted", "caught", "done"
    query,        \* per request: the deserialized Query
    thread,       \* per request: the worker thread its handler runs on (0: none)
    outcome,      \* per request: how the call highlight(&q) ended
    result,       \* per request: the handler's local `result` (line 59)
    responses,    \* per request: the replies sent to the client, in order
    afterPanic    \* per request: was a panic-tagged reply delivered before it was accepted

vars == <<QUIET, pc_main, themeLoads, syntaxLoads, pc, query, thread, outcome,
          result, responses, afterPanic>>

(***************************************************************************)
(* Bounds                                                                  *)
(***************************************************************************)
NumRequests == 2
NumThreads == 2

Requests == 1..NumRequests
Workers == 1..NumThreads
MainThread == 0
Threads == {MainThread} \cup Workers

(***************************************************************************)
(* Strings and paths                                                       *)
(***************************************************************************)
Empty == <<>>

\* index of the last occurrence of atom a in s, 0 when there is none
LastIndexOf(s, a) ==
    LET hits == {i \in 1..Len(s) : s[i] = a}
    IN IF hits = {} THEN 0 ELSE CHOOSE i \in hits : \A j \in hits : j <= i

RECURSIVE StripTrailingSep(_)
StripTrailingSep(p) ==
    IF p # Empty /\ p[Len(p)] = "/" THEN StripTrailingSep(SubSeq(p, 1, Len(p) - 1))
    ELSE p

\* path.file_name().and_then(|n| n.to_str()).unwrap_or("")
file_name(p) ==
    LET s == StripTrailingSep(p)
        last == SubSeq(s, LastIndexOf(s, "/") + 1, Len(s))
    IN IF last = <<"..">> THEN Empty ELSE last

\* path.extension().and_then(|x| x.to_str()).unwrap_or("")
extension(p) ==
    LET fn == file_name(p)
        dot == LastIndexOf(fn, ".")
    IN IF dot <= 1 THEN Empty ELSE SubSeq(fn, dot + 1, Len(fn))

(***************************************************************************)
(* The catalogs: what SyntaxSet::load_defaults_newlines() and              *)
(* ThemeSet::load_defaults() build.  A representative grammar catalog:     *)
(* grammars keyed by suffix, one keyed by a whole file name whose suffix   *)
(* is another grammar's key, and first-line patterns.                      *)
(***************************************************************************)
SyntaxCatalog == <<
    [name |-> "Plain Text", file_extensions |-> {<<"txt">>}, first_line |-> {}],
    [name |-> "Python", file_extensions |-> {<<"py">>}, first_line |-> {"#!python"}],
    [name |-> "Shell", file_extensions |-> {<<"sh">>}, first_line |-> {"#!/bin/sh"}],
    [name |-> "CMake", file_extensions |-> {<<"CMakeLists", ".", "txt">>}, first_line |-> {}]
>>

ThemeCatalog == {"InspiredGitHub", "base16-ocean.dark"}

None == "None"

\* syntaxes.iter().rev().find(..): the last grammar loaded that matches
LastMatch(hits) ==
    IF hits = {} THEN None
    ELSE SyntaxCatalog[CHOOSE i \in hits : \A j \in hits : j <= i].name

find_syntax_by_extension(ext) ==
    LastMatch({i \in 1..Len(SyntaxCatalog) : ext \in SyntaxCatalog[i].file_extensions})

first_line(code) == IF code = Empty THEN "" ELSE Head(code)

find_syntax_by_first_line(code) ==
    LastMatch({i \in 1..Len(SyntaxCatalog) : first_line(code) \in SyntaxCatalog[i].first_line})

find_syntax_plain_text == "Plain Text"

\* a.or_else(|| b)
or_else(a, b) == IF a # None THEN a ELSE b

(***************************************************************************)
(* Queries                                                                 *)
(***************************************************************************)
Q(ext, path, css, theme, code) ==
    [extension |-> ext, filepath |-> path, css |-> css, line_length_limit |-> None,
     theme |-> theme, code |-> code]

Queries == {
    Q(<<"py">>, Empty, FALSE, "InspiredGitHub", <<"#!/bin/sh", "x">>),
    Q(<<"zzz">>, Empty, FALSE, "InspiredGitHub", <<"hello">>),
    Q(Empty, Empty, TRUE, "no-such-theme", Empty),
    Q(Empty, <<"CMakeLists", ".", "txt">>, FALSE, "base16-ocean.dark", <<"hello">>),
    Q(<<"py">>, <<"src", "/", "notes">>, TRUE, "no-such-theme", <<"#!/bin/sh">>),
    Q(Empty, <<"notes", ".", "zzz">>, FALSE, "no-such-theme", <<"hello">>)
}

NoQuery == Q(Empty, Empty, FALSE, "", Empty)

(***************************************************************************)
(* highlight                                                               *)
(***************************************************************************)
Unwind(msg) == [kind |-> "unwind", payload |-> msg]
Return(v) == [kind |-> "return", value |-> v]
Diverge == [kind |-> "diverge"]
NoOutcome == [kind |-> "none"]

\* lines 77-116: the grammar and the is_plaintext flag, or the early return of line 86
syntax_def(q) ==
    IF q.filepath = Empty
    THEN LET byExt == find_syntax_by_extension(q.extension)
             byLine == find_syntax_by_first_line(q.code)
         IN IF byExt # None THEN [def |-> byExt, is_plaintext |-> FALSE]
            ELSE IF byLine # None THEN [def |-> byLine, is_plaintext |-> FALSE]
            ELSE [early |-> [error |-> "invalid extension"]]
    ELSE LET found == or_else(or_else(find_syntax_by_extension(file_name(q.filepath)),
                                      find_syntax_by_extension(extension(q.filepath))),
                              find_syntax_by_first_line(q.code))
         IN IF found # None THEN [def |-> found, is_plaintext |-> FALSE]
            ELSE [def |-> find_syntax_plain_text, is_plaintext |-> TRUE]

\* what the external engine produces for (renderer, grammar, code): opaque text
ClassedTable(def, code, limit) == <<"classed", def, code, limit>>
highlighted_html_for_string(code, def, theme) == <<"themed", def, code, theme>>

\* lines 73-150: the closure given to SYNTAX_SET.with; the engine may panic or
\* never return in the tokenize/render calls (lines 119-126, 146), and nothing
\* in the closure bounds its runtime
closure(q) ==
    LET s == syntax_def(q)
    IN IF "early" \in DOMAIN s THEN {Return(s.early)}
       ELSE IF q.css
       THEN {Return([data |-> ClassedTable(s.def, q.code, q.line_length_limit),
                     plaintext |-> s.is_plaintext]),
             Unwind("syntect"), Diverge}
       ELSE IF q.theme \notin ThemeCatalog
       THEN {Return([error |-> "invalid theme", code |-> "invalid_theme"])}
       ELSE {Return([data |-> highlighted_html_for_string(q.code, s.def, q.theme),
                     plaintext |-> s.is_plaintext]),
             Unwind("syntect"), Diverge}

\* line 72: the first statement of highlight is an unconditional panic!
entry_statement == Unwind("in the streets of london")

\* lines 71-151: the ways a call highlight(&q) can end
highlight(q) ==
    IF entry_statement.kind = "unwind" THEN {entry_statement} ELSE closure(q)

\* line 73: does the call reach SYNTAX_SET.with (first use builds the thread's set)
reaches_syntax_set(q) == entry_statement.kind # "unwind"

\* line 140: does the call reach THEME_SET (first use builds it)
reaches_theme_set(q) ==
    /\ reaches_syntax_set(q)
    /\ ~q.css
    /\ "early" \notin DOMAIN syntax_def(q)

\* thread_local! / lazy_static!: built on first use, never again
lazy_init(n) == IF n = 0 THEN 1 ELSE n

(***************************************************************************)
(* highlight_handler                                                       *)
(***************************************************************************)
NoResult == [tag |-> "none"]

\* line 59: panic::catch_unwind(|| highlight(&q))
catch_unwind(o) ==
    IF o.kind = "unwind" THEN [tag |-> "Err", err |-> o.payload]
    ELSE [tag |-> "Ok", v |-> o.value]

PanicReply == [error |-> "panic while highlighting code", code |-> "panic"]

\* the Err arm puts the panic's payload into the reply
handler_match_leaky(res) ==
    IF res.tag = "Err" THEN <<[error |-> res.err, code |-> "panic"]>> ELSE <<res.v>>

\* the Err arm logs and sends nothing
handler_match_silent(res) ==
    IF res.tag = "Err" THEN <<>> ELSE <<res.v>>

\* lines 60-68: the replies the handler returns for `result`
handler_match(res) ==
    IF res.tag = "Err" THEN <<PanicReply>> ELSE <<res.v>>

\* `result` kept in one shared slot that the first request's handler fills; it
\* holds an empty payload until then
shared_result(res, r) ==
    IF res[1].tag = "none" THEN [tag |-> "Ok", v |-> [data |-> Empty, plaintext |-> FALSE]]
    ELSE res[1]

\* line 59-60: the handler matches on its own local `result`
own_result(res, r) == res[r]

(***************************************************************************)
(* Initial state                                                           *)
(***************************************************************************)
Init ==
    /\ QUIET \in {"unset", "true", "false"}
    /\ pc_main = "start"
    /\ themeLoads = 0
    /\ syntaxLoads = [t \in Threads |-> 0]
    /\ pc = [r \in Requests |-> "idle"]
    /\ query = [r \in Requests |-> NoQuery]
    /\ thread = [r \in Requests |-> 0]
    /\ outcome = [r \in Requests |-> NoOutcome]
    /\ result = [r \in Requests |-> NoResult]
    /\ responses = [r \in Requests |-> <<>>]
    /\ afterPanic = [r \in Requests |-> FALSE]

reqvars == <<pc, query, thread, outcome, result, responses, afterPanic>>

(***************************************************************************)
(* main                                                                    *)
(***************************************************************************)
\* lines 187-194, QUIET unset or not "true": list_features() reads both catalogs
\* on the main thread
MainListFeatures ==
    /\ pc_main = "start"
    /\ QUIET # "true"
    /\ themeLoads' = lazy_init(themeLoads)
    /\ syntaxLoads' = [syntaxLoads EXCEPT ![MainThread] = lazy_init(@)]
    /\ pc_main' = "listed"
    /\ UNCHANGED <<QUIET, reqvars>>

\* lines 187-194, QUIET = "true": nothing is listed
MainQuiet ==
    /\ pc_main = "start"
    /\ QUIET = "true"
    /\ pc_main' = "listed"
    /\ UNCHANGED <<QUIET, themeLoads, syntaxLoads, reqvars>>

\* lines 196-215: build the routes and serve
MainServe ==
    /\ pc_main = "listed"
    /\ pc_main' = "serving"
    /\ UNCHANGED <<QUIET, themeLoads, syntaxLoads, reqvars>>

(***************************************************************************)
(* One request                                                             *)
(***************************************************************************)
\* some client has already received a reply tagged "panic"
PanicDelivered ==
    \E s \in Requests : \E i \in 1..Len(responses[s]) :
        "code" \in DOMAIN responses[s][i] /\ responses[s][i].code = "panic"

\* lines 201-204: a POST / whose body deserializes to q is routed to the handler
Accept(r, q) ==
    /\ pc_main = "serving"
    /\ pc[r] = "idle"
    /\ \A s \in Requests : s < r => pc[s] # "idle"
    /\ pc' = [pc EXCEPT ![r] = "queued"]
    /\ query' = [query EXCEPT ![r] = q]
    /\ afterPanic' = [afterPanic EXCEPT ![r] = PanicDelivered]
    /\ UNCHANGED <<QUIET, pc_main, themeLoads, syntaxLoads, thread, outcome, result,
                   responses>>

\* lines 52-59: the handler is polled on a free worker thread, logs, and calls
\* highlight(&q), which runs until it returns or unwinds; a call that diverges
\* never reaches line 60
CallHighlight(r, t) ==
    /\ pc[r] = "queued"
    /\ \A s \in Requests : thread[s] # t
    /\ \E o \in highlight(query[r]) :
          /\ o.kind # "diverge"
          /\ outcome' = [outcome EXCEPT ![r] = o]
    /\ syntaxLoads' = IF reaches_syntax_set(query[r])
                      THEN [syntaxLoads EXCEPT ![t] = lazy_init(@)]
                      ELSE syntaxLoads
    /\ themeLoads' = IF reaches_theme_set(query[r]) THEN lazy_init(themeLoads)
                     ELSE themeLoads
    /\ thread' = [thread EXCEPT ![r] = t]
    /\ pc' = [pc EXCEPT ![r] = "highlighted"]
    /\ UNCHANGED <<QUIET, pc_main, query, result, responses, afterPanic>>

\* line 59: catch_unwind hands the handler a Result
CatchUnwind(r) ==
    /\ pc[r] = "highlighted"
    /\ result' = [result EXCEPT ![r] = catch_unwind(outcome[r])]
    /\ pc' = [pc EXCEPT ![r] = "caught"]
    /\ UNCHANGED <<QUIET, pc_main, themeLoads, syntaxLoads, query, thread, outcome,
                   responses, afterPanic>>

\* lines 60-68: match result, reply, and give the thread back
Reply(r) ==
    /\ pc[r] = "caught"
    /\ responses' = [responses EXCEPT ![r] = @ \o handler_match(own_result(result, r))]
    /\ thread' = [thread EXCEPT ![r] = 0]
    /\ pc' = [pc EXCEPT ![r] = "done"]
    /\ UNCHANGED <<QUIET, pc_main, themeLoads, syntaxLoads, query, outcome, result,
                   afterPanic>>

Next ==
    \/ MainListFeatures
    \/ MainQuiet
    \/ MainServe
    \/ \E r \in Requests, q \in Queries : Accept(r, q)
    \/ \E r \in Requests, t \in Workers : CallHighlight(r, t)
    \/ \E r \in Requests : CatchUnwind(r)
    \/ \E r \in Requests : Reply(r)

Spec == Init /\ [][Next]_vars

\* main runs to warp::serve, and a polled handler runs to completion: it has no
\* await point, so the runtime cannot park it
FairSpec ==
    /\ Spec
    /\ WF_vars(MainListFeatures \/ MainQuiet \/ MainServe)
    /\ \A r \in Requests :
          /\ WF_vars(\E t \in Workers : CallHighlight(r, t))
          /\ WF_vars(CatchUnwind(r))
          /\ WF_vars(Reply(r))

(***************************************************************************)
(* Vocabulary of the properties                                            *)
(***************************************************************************)
Done(r) == pc[r] = "done"
InFlight(r) == pc[r] \in {"queued", "highlighted", "caught"}
Reply1(r) == responses[r][1]
IsSuccess(v) == DOMAIN v = {"data", "plaintext"}
IsFailure(v) == "error" \in DOMAIN v
HasCode(v, c) == "code" \in DOMAIN v /\ v.code = c
TaxonomyTags == {"invalid_extension", "invalid_theme", "panic"}
GenericPanicMessage == "panic while highlighting code"

\* css=true, or the theme is in the catalog: the theme cannot fail the request
ThemeUsable(q) == q.css \/ q.theme \in ThemeCatalog

\* the grammar a success payload was rendered with
GrammarOf(v) == v.data[2]

\* some grammar matches the whole file name, the suffix, the declared extension
\* or the first line
Resolvable(q) ==
    \/ q.filepath # Empty /\ find_syntax_by_extension(file_name(q.filepath)) # None
    \/ q.filepath # Empty /\ find_syntax_by_extension(extension(q.filepath)) # None
    \/ q.filepath = Empty /\ find_syntax_by_extension(q.extension) # None
    \/ find_syntax_by_first_line(q.code) # None

\* legacy request that no extension and no first line resolves
LegacyUnresolved(q) ==
    /\ q.filepath = Empty
    /\ find_syntax_by_extension(q.extension) = None
    /\ find_syntax_by_first_line(q.code) = None

\* the priority order for a request with a file path: whole file name, suffix,
\* first line, else plaintext
PriorityOrder(q) ==
    LET byName == find_syntax_by_extension(file_name(q.filepath))
        bySuffix == find_syntax_by_extension(extension(q.filepath))
        byLine == find_syntax_by_first_line(q.code)
    IN IF byName # None THEN [grammar |-> byName, plaintext |-> FALSE]
       ELSE IF bySuffix # None THEN [grammar |-> bySuffix, plaintext |-> FALSE]
       ELSE IF byLine # None THEN [grammar |-> byLine, plaintext |-> FALSE]
       ELSE [grammar |-> "Plain Text", plaintext |-> TRUE]

RECURSIVE SumLoads(_, _)
SumLoads(f, S) ==
    IF S = {} THEN 0
    ELSE LET t == CHOOSE x \in S : TRUE IN f[t] + SumLoads(f, S \ {t})

\* the replies the handler gives a request that is processed alone
SoloReplies(q) ==
    {handler_match(catch_unwind(o)) : o \in {x \in highlight(q) : x.kind # "diverge"}}

(***************************************************************************)
(* Properties                                                              *)
(***************************************************************************)

\* C1: whenever the highlight step of a request unwinds, the handler sends
\* exactly one reply, and it is {error: generic message, code: "panic"} with no
\* data field and nothing of the panic's payload; no request ever has more
\* than one reply, and none before its handler has finished.
C1_PanicBecomesPanicReply ==
    \A r \in Requests :
        /\ Len(responses[r]) <= 1
        /\ ~Done(r) => responses[r] = <<>>
        /\ (Done(r) /\ outcome[r].kind = "unwind") =>
              /\ Len(responses[r]) = 1
              /\ DOMAIN Reply1(r) = {"error", "code"}
              /\ Reply1(r).code = "panic"
              /\ Reply1(r).error = GenericPanicMessage
              /\ Reply1(r).error # outcome[r].payload

C1_Witness ==
    \E r \in Requests :
        /\ Done(r)
        /\ outcome[r].kind = "unwind"
        /\ result[r].tag = "Err"
        /\ responses[r] = <<[error |-> GenericPanicMessage, code |-> "panic"]>>

\* C2: a request accepted after a panic-tagged reply was delivered, whose
\* grammar is resolvable and whose theme is usable, is answered with a success
\* payload {data, plaintext}.
C2_SubsequentRequestSucceeds ==
    \A r \in Requests :
        (Done(r) /\ afterPanic[r] /\ Resolvable(query[r]) /\ ThemeUsable(query[r]))
            => (Len(responses[r]) = 1 /\ IsSuccess(Reply1(r)))

\* C3: a legacy request (empty filepath) whose extension and first line match
\* no grammar is answered with a success payload whose plaintext flag is true.
C3_LegacyFallsBackToPlaintext ==
    \A r \in Requests :
        (Done(r) /\ LegacyUnresolved(query[r]) /\ ThemeUsable(query[r]))
            => /\ Len(responses[r]) = 1
               /\ IsSuccess(Reply1(r))
               /\ Reply1(r).plaintext = TRUE
               /\ GrammarOf(Reply1(r)) = "Plain Text"

\* C4: a request with a non-empty filepath is rendered with the first match of
\* whole file name, suffix, first line, plaintext; plaintext is true exactly
\* in the last case.
C4_FilepathPriority ==
    \A r \in Requests :
        (Done(r) /\ query[r].filepath # Empty /\ ThemeUsable(query[r]))
            => /\ Len(responses[r]) = 1
               /\ IsSuccess(Reply1(r))
               /\ GrammarOf(Reply1(r)) = PriorityOrder(query[r]).grammar
               /\ Reply1(r).plaintext = PriorityOrder(query[r]).plaintext

\* C5: every failure reply has an error field and a code field holding one of
\* the taxonomy tags, and the failure of an unresolved legacy request carries
\* code "invalid_extension".
C5_FailuresAreTagged ==
    \A r \in Requests :
        (Done(r) /\ Len(responses[r]) = 1 /\ IsFailure(Reply1(r)))
            => /\ "code" \in DOMAIN Reply1(r)
               /\ Reply1(r).code \in TaxonomyTags
               /\ LegacyUnresolved(query[r]) => Reply1(r).code = "invalid_extension"

\* C6: css=false with a theme outside the catalog is answered with the
\* invalid_theme error and no data field; css=true is never answered with
\* invalid_theme.
C6_InvalidTheme ==
    \A r \in Requests :
        Done(r) =>
            /\ Len(responses[r]) = 1
            /\ (~query[r].css /\ query[r].theme \notin ThemeCatalog)
                  => /\ HasCode(Reply1(r), "invalid_theme")
                     /\ IsFailure(Reply1(r))
                     /\ "data" \notin DOMAIN Reply1(r)
            /\ query[r].css => ~HasCode(Reply1(r), "invalid_theme")

C8_Isolation ==
    /\ (\E r \in Requests : pc[r] # "idle") => pc_main = "serving"
    /\ \A r \in Requests : Done(r) => responses[r] \in SoloReplies(query[r])

C8_Witness ==
    \E r, s \in Requests :
        /\ r # s
        /\ Done(r)
        /\ responses[r] \in SoloReplies(query[r])
        /\ pc[s] \in {"highlighted", "caught"}
        /\ outcome[s].kind = "unwind"
        /\ ~afterPanic[r]
        /\ ~afterPanic[s]

\* C9: a legacy request whose declared extension matches a grammar is rendered
\* with that grammar, whatever its first line is.
C9_LegacyExtensionFirst ==
    \A r \in Requests :
        (/\ Done(r)
         /\ query[r].filepath = Empty
         /\ find_syntax_by_extension(query[r].extension) # None
         /\ ThemeUsable(query[r]))
            => /\ Len(responses[r]) = 1
               /\ IsSuccess(Reply1(r))
               /\ GrammarOf(Reply1(r)) = find_syntax_by_extension(query[r].extension)

\* C10: while the service accepts requests, the theme catalog has been built
\* exactly once and the grammar catalog exactly once, whatever QUIET is and
\* whatever the requests did.
C10_CatalogsBuiltOnceBeforeServing ==
    pc_main = "serving" =>
        /\ themeLoads = 1
        /\ SumLoads(syntaxLoads, Threads) = 1
====
